---- MODULE Spec2Model ----
(***************************************************************************)
(* yellowbrick.regressor: RegressionScoreVisualizer, PredictionError and   *)
(* ResidualsPlot.  One visualizer is constructed and then driven by its    *)
(* caller through fit / score / draw / poof.  The collaborators are the    *)
(* estimator, pyplot (plt) and the axes (the Surface).  `surf` is what     *)
(* each axes holds, `plt` counts the pyplot calls, and `events` lists, in  *)
(* program order, the collaborator calls made by the latest call.          *)
(***************************************************************************)
EXTENDS Integers, Sequences, FiniteSets, TLC

\* ---------------------------------------------------------------- bounds
MaxCalls == 2       \* method calls made on the instance after construction
MaxLen == 2         \* samples per call: n in 1..MaxLen

\* ------------------------------------------------------------ value sets
None == "None"
Absent == "absent"                      \* a keyword argument not passed
Vals == {0, 1}                          \* target and predicted values
Vecs(S) == UNION {[1..n -> S] : n \in 1..MaxLen}
Surfaces == {"ax1", "ax2"}
CurrentAxes == "ax1"                    \* the axes plt.gca() answers
CustomColors == {"#FF0000"}
Classes == {"RegressionScoreVisualizer", "PredictionError", "ResidualsPlot"}
NoModel == [cls |-> "None", kind |-> "none"]
Models == { [cls |-> "Ridge",  kind |-> "regressor"],
            [cls |-> "SVC",    kind |-> "classifier"],
            [cls |-> "KMeans", kind |-> "clusterer"] }

VARIABLES cls, estimator, name, ax, colors, surf, plt, events,
          ctor, call, hist, ret, err, ncalls

vars == <<cls, estimator, name, ax, colors, surf, plt, events,
          ctor, call, hist, ret, err, ncalls>>

\* ------------------------------------------------------------- utilities
isregressor(model) == model.kind = "regressor"

get_model_name(model) == model.cls

pop(kwargs, key, default) == IF kwargs[key] = Absent THEN default ELSE kwargs[key]

Min(v) == CHOOSE m \in {v[i] : i \in 1..Len(v)} : \A i \in 1..Len(v) : m <= v[i]

Max(v) == CHOOSE m \in {v[i] : i \in 1..Len(v)} : \A i \in 1..Len(v) : m >= v[i]

Sub(a, b) == [i \in 1..Len(a) |-> a[i] - b[i]]

\* ------------------------------------------------------ the collaborators
\* A method body threads st = [ax, surf, plt, events]; it ends in Out.
BlankAxes == [marks |-> 0, lines |-> 0, hlines |-> 0, xlim |-> <<>>,
              ylim |-> <<>>, title |-> "", xlabel |-> "", ylabel |-> ""]

Emit(st, e) == [st EXCEPT !.events = Append(@, e)]

Out(st, r, e) == [ax |-> st.ax, surf |-> st.surf, plt |-> st.plt,
                  events |-> st.events, ret |-> r, err |-> e]

plt_gca(st) ==
    Emit([st EXCEPT !.ax = CurrentAxes, !.plt.gca = @ + 1],
         [op |-> "plt.gca", ax |-> CurrentAxes])

plt_xlabel(st, text) ==
    Emit([st EXCEPT !.surf[CurrentAxes].xlabel = text],
         [op |-> "plt.xlabel", ax |-> CurrentAxes, text |-> text])

plt_show(st) == Emit([st EXCEPT !.plt.show = @ + 1], [op |-> "plt.show"])

scatter(st, e) == Emit([st EXCEPT !.surf[st.ax].marks = @ + Len(e.x)], e)

draw_best_fit(st, X, y, c) ==
    Emit([st EXCEPT !.surf[st.ax].lines = @ + 1],
         [op |-> "draw_best_fit", ax |-> st.ax, x |-> X, y |-> y,
          estimator |-> "linear", ls |-> "--", lw |-> 2, c |-> c])

set_xlim(st, lo, hi) ==
    Emit([st EXCEPT !.surf[st.ax].xlim = <<lo, hi>>],
         [op |-> "set_xlim", ax |-> st.ax, lo |-> lo, hi |-> hi])

set_ylim(st, lo, hi) ==
    Emit([st EXCEPT !.surf[st.ax].ylim = <<lo, hi>>],
         [op |-> "set_ylim", ax |-> st.ax, lo |-> lo, hi |-> hi])

hlines(st, y, xmin, xmax) ==
    Emit([st EXCEPT !.surf[st.ax].hlines = @ + 1],
         [op |-> "hlines", ax |-> st.ax, y |-> y, xmin |-> xmin, xmax |-> xmax])

set_title(st, text) ==
    Emit([st EXCEPT !.surf[st.ax].title = text],
         [op |-> "set_title", ax |-> st.ax, text |-> text])

set_ylabel(st, text) ==
    Emit([st EXCEPT !.surf[st.ax].ylabel = text],
         [op |-> "set_ylabel", ax |-> st.ax, text |-> text])

estimator_fit(st, n) == Emit(st, [op |-> "estimator.fit", n |-> n])

predict(st, y_pred) == Emit(st, [op |-> "estimator.predict", out |-> y_pred])

\* ------------------------------------------- RegressionScoreVisualizer
ScoreVisualizer_init(model, kwargs) ==
    [estimator |-> model, name |-> get_model_name(model), ax |-> kwargs.ax,
     events |-> <<[op |-> "ScoreVisualizer.__init__"]>>, err |-> "none"]

\* variant: the isregressor check left out
RegressionScoreVisualizer_init_unchecked(model, kwargs) ==
    ScoreVisualizer_init(model, kwargs)

RegressionScoreVisualizer_init(model, kwargs) ==
    IF ~isregressor(model)
    THEN [estimator |-> NoModel, name |-> None, ax |-> None, events |-> <<>>,
          err |-> "YellowbrickTypeError"]
    ELSE ScoreVisualizer_init(model, kwargs)

ScoreVisualizer_fit(st, y) == estimator_fit(st, Len(y))

\* ------------------------------------------------------ PredictionError
PredictionError_colors(kwargs) ==
    [point |-> pop(kwargs, "point_color", "#F2BE2C"),
     line  |-> pop(kwargs, "line_color", "#2B94E9")]

\* variant: axis limits without the padding of one
PredictionError_draw_unpadded(st, col, y, y_pred) ==
    LET s0 == IF st.ax = None THEN plt_gca(st) ELSE st
        s1 == scatter(s0, [op |-> "scatter", ax |-> s0.ax, x |-> y,
                           y |-> y_pred, c |-> "#F2BE2C"])
        s2 == draw_best_fit(s1, y, y_pred, col.line)
        s3 == set_xlim(s2, Min(y), Max(y))
        s4 == set_ylim(s3, Min(y_pred), Max(y_pred))
    IN  Out(s4, s4.ax, "none")

\* variant: the axes are taken from pyplot on every draw
PredictionError_draw_regrab(st, col, y, y_pred) ==
    LET s0 == plt_gca(st)
        s1 == scatter(s0, [op |-> "scatter", ax |-> s0.ax, x |-> y,
                           y |-> y_pred, c |-> "#F2BE2C"])
        s2 == draw_best_fit(s1, y, y_pred, col.line)
        s3 == set_xlim(s2, Min(y) - 1, Max(y) + 1)
        s4 == set_ylim(s3, Min(y_pred) - 1, Max(y_pred) + 1)
    IN  Out(s4, s4.ax, "none")

\* variant: the best-fit line is drawn by the first draw only
PredictionError_draw_fitonce(st, col, y, y_pred) ==
    LET s0 == IF st.ax = None THEN plt_gca(st) ELSE st
        s1 == scatter(s0, [op |-> "scatter", ax |-> s0.ax, x |-> y,
                           y |-> y_pred, c |-> "#F2BE2C"])
        s2 == IF s1.surf[s1.ax].lines = 0
              THEN draw_best_fit(s1, y, y_pred, col.line) ELSE s1
        s3 == set_xlim(s2, Min(y) - 1, Max(y) + 1)
        s4 == set_ylim(s3, Min(y_pred) - 1, Max(y_pred) + 1)
    IN  Out(s4, s4.ax, "none")

PredictionError_draw(st, col, y, y_pred) ==
    LET s0 == IF st.ax = None THEN plt_gca(st) ELSE st
        s1 == scatter(s0, [op |-> "scatter", ax |-> s0.ax, x |-> y,
                           y |-> y_pred, c |-> "#F2BE2C"])
        s2 == draw_best_fit(s1, y, y_pred, col.line)
        s3 == set_xlim(s2, Min(y) - 1, Max(y) + 1)
        s4 == set_ylim(s3, Min(y_pred) - 1, Max(y_pred) + 1)
    IN  Out(s4, s4.ax, "none")

PredictionError_score(st, col, y, y_pred) ==
    PredictionError_draw(predict(st, y_pred), col, y, y_pred)

PredictionError_poof(st, nm) ==
    IF st.ax = None
    THEN Out(st, None, "AttributeError")
    ELSE LET s1 == set_title(st, "Prediction Error for " \o nm)
             s2 == set_ylabel(s1, "Predicted")
             s3 == plt_xlabel(s2, "Measured")
             s4 == plt_show(s3)
         IN  Out(s4, s4.ax, "none")

\* -------------------------------------------------------- ResidualsPlot
ResidualsPlot_colors(kwargs) ==
    [train_point |-> pop(kwargs, "train_point_color", "#2B94E9"),
     test_point  |-> pop(kwargs, "test_point_color", "#94BA65"),
     line        |-> pop(kwargs, "line_color", "#333333")]

\* variant: the train and test colors exchanged
ResidualsPlot_draw_swapped(st, col, y_pred, residuals, train) ==
    LET s0    == IF st.ax = None THEN plt_gca(st) ELSE st
        color == IF train THEN col.test_point ELSE col.train_point
        alpha == IF train THEN 50 ELSE 100
        s1    == scatter(s0, [op |-> "scatter", ax |-> s0.ax, x |-> y_pred,
                              y |-> residuals, c |-> color, s |-> 40,
                              alpha |-> alpha])
    IN  Out(s1, s1.ax, "none")

\* alpha is written in percent: 50 is 0.5 and 100 is 1.0
ResidualsPlot_draw(st, col, y_pred, residuals, train) ==
    LET s0    == IF st.ax = None THEN plt_gca(st) ELSE st
        color == IF train THEN col.train_point ELSE col.test_point
        alpha == IF train THEN 50 ELSE 100
        s1    == scatter(s0, [op |-> "scatter", ax |-> s0.ax, x |-> y_pred,
                              y |-> residuals, c |-> color, s |-> 40,
                              alpha |-> alpha])
    IN  Out(s1, s1.ax, "none")

\* variant: residuals taken as y - y_pred
ResidualsPlot_score_reversed(st, col, y, y_pred, train) ==
    LET s1     == predict(st, y_pred)
        scores == Sub(y, y_pred)
        d      == ResidualsPlot_draw(s1, col, y_pred, scores, train)
    IN  Out(d, None, d.err)

ResidualsPlot_score(st, col, y, y_pred, train) ==
    LET s1     == predict(st, y_pred)
        scores == Sub(y_pred, y)
        d      == ResidualsPlot_draw(s1, col, y_pred, scores, train)
    IN  Out(d, None, d.err)

\* variant: the training residuals scored before the estimator is trained
ResidualsPlot_fit_scorefirst(st, col, y, y_pred) ==
    LET s1 == ResidualsPlot_score(st, col, y, y_pred, TRUE)
        s2 == ScoreVisualizer_fit(s1, y)
    IN  Out(s2, None, s1.err)

ResidualsPlot_fit(st, col, y, y_pred) ==
    LET s1 == ScoreVisualizer_fit(st, y)
        s2 == ResidualsPlot_score(s1, col, y, y_pred, TRUE)
    IN  Out(s2, None, s2.err)

\* variant: poof takes the axes from pyplot instead of returning early
ResidualsPlot_poof_acquires(st, nm) ==
    LET s0 == IF st.ax = None THEN plt_gca(st) ELSE st
        s1 == hlines(s0, 0, 0, 100)
        s2 == set_title(s1, "Residuals for " \o nm \o " Model")
        s3 == set_ylabel(s2, "Residuals")
        s4 == plt_xlabel(s3, "Predicted Value")
        s5 == plt_show(s4)
    IN  Out(s5, s5.ax, "none")

\* variant: the figure is shown before it is labelled
ResidualsPlot_poof_showfirst(st, nm) ==
    IF st.ax = None
    THEN Out(st, None, "none")
    ELSE LET s1 == hlines(st, 0, 0, 100)
             s2 == plt_show(s1)
             s3 == set_title(s2, "Residuals for " \o nm \o " Model")
             s4 == set_ylabel(s3, "Residuals")
             s5 == plt_xlabel(s4, "Predicted Value")
         IN  Out(s5, s5.ax, "none")

ResidualsPlot_poof(st, nm) ==
    IF st.ax = None
    THEN Out(st, None, "none")
    ELSE LET s1 == hlines(st, 0, 0, 100)
             s2 == set_title(s1, "Residuals for " \o nm \o " Model")
             s3 == set_ylabel(s2, "Residuals")
             s4 == plt_xlabel(s3, "Predicted Value")
             s5 == plt_show(s4)
         IN  Out(s5, s5.ax, "none")

\* ------------------------------------------------------------ the caller
\* The caller's record of its latest call: the method, its arguments and
\* the Surface reference the instance held when the call began.
Call(fn, a, b, train) == [fn |-> fn, a |-> a, b |-> b, train |-> train, ax |-> ax]

NoCall == [fn |-> "none", a |-> <<>>, b |-> <<>>, train |-> FALSE, ax |-> None]

NoCtor == [cls |-> "none", model |-> NoModel, kwargs |-> <<>>]

Entry == [ax |-> ax, surf |-> surf, plt |-> plt, events |-> <<>>]

ColorArg == {Absent} \cup CustomColors

KwargsOf(c) ==
    { [ax |-> s, point_color |-> p, line_color |-> l,
       train_point_color |-> tr, test_point_color |-> te] :
         s \in {None} \cup Surfaces,
         p \in IF c = "PredictionError" THEN ColorArg ELSE {Absent},
         l \in IF c = "PredictionError" THEN ColorArg ELSE {Absent},
         tr \in IF c = "ResidualsPlot" THEN ColorArg ELSE {Absent},
         te \in IF c = "ResidualsPlot" THEN ColorArg ELSE {Absent} }

Init ==
    /\ cls = "none"
    /\ estimator = NoModel
    /\ name = None
    /\ ax = None
    /\ colors = <<>>
    /\ surf = [s \in Surfaces |-> BlankAxes]
    /\ plt = [gca |-> 0, show |-> 0]
    /\ events = <<>>
    /\ ctor = NoCtor
    /\ call = NoCall
    /\ hist = [draws |-> 0, samples |-> 0]
    /\ ret = None
    /\ err = "none"
    /\ ncalls = 0

Construct ==
    /\ ctor = NoCtor
    /\ \E c \in Classes, model \in Models : \E kwargs \in KwargsOf(c) :
         LET r == RegressionScoreVisualizer_init(model, kwargs) IN
         /\ ctor' = [cls |-> c, model |-> model, kwargs |-> kwargs]
         /\ estimator' = r.estimator
         /\ name' = r.name
         /\ ax' = r.ax
         /\ events' = r.events
         /\ err' = r.err
         /\ cls' = IF r.err = "none" THEN c ELSE cls
         /\ colors' = IF r.err # "none" THEN colors
                       ELSE IF c = "PredictionError" THEN PredictionError_colors(kwargs)
                       ELSE IF c = "ResidualsPlot" THEN ResidualsPlot_colors(kwargs)
                       ELSE colors
         /\ UNCHANGED <<surf, plt, call, hist, ret, ncalls>>

Apply(r) ==
    /\ ax' = r.ax
    /\ surf' = r.surf
    /\ plt' = r.plt
    /\ events' = r.events
    /\ ret' = r.ret
    /\ err' = r.err
    /\ ncalls' = ncalls + 1
    /\ UNCHANGED <<cls, estimator, name, colors, ctor>>

Callable(c) == cls = c /\ ncalls < MaxCalls

Drew(n) == hist' = [draws |-> hist.draws + 1, samples |-> hist.samples + n]

PE_Fit ==
    /\ Callable("PredictionError")
    /\ \E y \in Vecs(Vals) :
         /\ call' = Call("fit", y, <<>>, FALSE)
         /\ Apply(Out(ScoreVisualizer_fit(Entry, y), "self", "none"))
         /\ UNCHANGED hist

PE_Score ==
    /\ Callable("PredictionError")
    /\ \E y \in Vecs(Vals) : \E y_pred \in [1..Len(y) -> Vals] :
         /\ call' = Call("score", y, y_pred, FALSE)
         /\ Apply(PredictionError_score(Entry, colors, y, y_pred))
         /\ Drew(Len(y))

PE_Draw ==
    /\ Callable("PredictionError")
    /\ \E y \in Vecs(Vals) : \E y_pred \in [1..Len(y) -> Vals] :
         /\ call' = Call("draw", y, y_pred, FALSE)
         /\ Apply(PredictionError_draw(Entry, colors, y, y_pred))
         /\ Drew(Len(y))

PE_Poof ==
    /\ Callable("PredictionError")
    /\ call' = Call("poof", <<>>, <<>>, FALSE)
    /\ Apply(PredictionError_poof(Entry, name))
    /\ UNCHANGED hist

RP_Fit ==
    /\ Callable("ResidualsPlot")
    /\ \E y \in Vecs(Vals) : \E y_pred \in [1..Len(y) -> Vals] :
         /\ call' = Call("fit", y, y_pred, TRUE)
         /\ Apply(ResidualsPlot_fit(Entry, colors, y, y_pred))
         /\ Drew(Len(y))

RP_Score ==
    /\ Callable("ResidualsPlot")
    /\ \E y \in Vecs(Vals), train \in BOOLEAN : \E y_pred \in [1..Len(y) -> Vals] :
         /\ call' = Call("score", y, y_pred, train)
         /\ Apply(ResidualsPlot_score(Entry, colors, y, y_pred, train))
         /\ Drew(Len(y))

RP_Draw ==
    /\ Callable("ResidualsPlot")
    /\ \E y_pred \in Vecs(Vals), train \in BOOLEAN :
       \E residuals \in [1..Len(y_pred) -> Vals] :
         /\ call' = Call("draw", y_pred, residuals, train)
         /\ Apply(ResidualsPlot_draw(Entry, colors, y_pred, residuals, train))
         /\ Drew(Len(y_pred))

RP_Poof ==
    /\ Callable("ResidualsPlot")
    /\ call' = Call("poof", <<>>, <<>>, FALSE)
    /\ Apply(ResidualsPlot_poof(Entry, name))
    /\ UNCHANGED hist

Next ==
    \/ Construct
    \/ PE_Fit \/ PE_Score \/ PE_Draw \/ PE_Poof
    \/ RP_Fit \/ RP_Score \/ RP_Draw \/ RP_Poof

Spec == Init /\ [][Next]_vars

\* ------------------------------------------------------------ properties
Untouched == surf = [s \in Surfaces |-> BlankAxes] /\ plt = [gca |-> 0, show |-> 0]

Configured(key, default) ==
    IF ctor.kwargs[key] = Absent THEN default ELSE ctor.kwargs[key]

EventsOf(op) == {i \in 1..Len(events) : events[i].op = op}

\* lim is (least element of v) - 1, (greatest element of v) + 1
IsLimits(lim, v) ==
    /\ Len(lim) = 2
    /\ \E i \in 1..Len(v) : v[i] = lim[1] + 1
    /\ \A i \in 1..Len(v) : v[i] >= lim[1] + 1
    /\ \E i \in 1..Len(v) : v[i] = lim[2] - 1
    /\ \A i \in 1..Len(v) : v[i] <= lim[2] - 1

\* C1: constructing any of the three classes around an estimator that is
\* not a regressor raises YellowbrickTypeError; the base constructor has not
\* run, no instance exists and no Surface or pyplot operation was made.
C1_NonRegressorRejected ==
    (ctor.cls # "none" /\ ctor.model.kind # "regressor") =>
        /\ err = "YellowbrickTypeError"
        /\ cls = "none"
        /\ events = <<>>
        /\ ax = None
        /\ Untouched

C1_Witness ==
    /\ ctor.cls = "ResidualsPlot"
    /\ ctor.model.kind = "classifier"
    /\ ctor.kwargs.ax = "ax2"
    /\ err = "YellowbrickTypeError"

\* C2: one PredictionError.draw(y, y_pred) call with n samples adds n marks
\* to the Surface, mark i at (y[i], y_pred[i]), and one best-fit line, and
\* leaves the x limits at (min(y)-1, max(y)+1) and the y limits at
\* (min(y_pred)-1, max(y_pred)+1).
C2_DrawAddsMarksLineLimits ==
    [][ (cls = "PredictionError" /\ ncalls' = ncalls + 1 /\ call'.fn = "draw") =>
          LET y == call'.a
              y_pred == call'.b
              S == surf'[ax']
              S0 == surf[ax']
              sc == {i \in 1..Len(events') : events'[i].op = "scatter"}
              bf == {i \in 1..Len(events') : events'[i].op = "draw_best_fit"}
          IN  /\ S.marks = S0.marks + Len(y)
              /\ S.lines = S0.lines + 1
              /\ Cardinality(sc) = 1
              /\ \A i \in sc : /\ events'[i].ax = ax'
                               /\ events'[i].x = y
                               /\ events'[i].y = y_pred
              /\ Cardinality(bf) = 1
              /\ \A i \in bf : events'[i].ax = ax'
              /\ IsLimits(S.xlim, y)
              /\ IsLimits(S.ylim, y_pred) ]_vars

C2_Witness ==
    /\ cls = "PredictionError"
    /\ call.fn = "draw"
    /\ call.a = <<1, 0>>
    /\ call.b = <<0, 1>>
    /\ ncalls = 2
    /\ surf[ax].xlim = <<0 - 1, 2>>

\* C3: every mark PredictionError.draw adds has the configured point color
\* (the point_color option, or its default when the option is omitted).
C3_MarksUsePointColor ==
    (cls = "PredictionError" /\ call.fn \in {"draw", "score"}) =>
        \A i \in EventsOf("scatter") :
            events[i].c = Configured("point_color", "#F2BE2C")

\* C4: ResidualsPlot.draw with train=True adds its marks in the configured
\* train_point color at opacity 0.5; with train=False in the configured
\* test_point color at opacity 1.0; in every draw call.
C4_TrainSelectsColorAndAlpha ==
    (cls = "ResidualsPlot" /\ call.fn = "draw") =>
        /\ Cardinality(EventsOf("scatter")) = 1
        /\ \A i \in EventsOf("scatter") :
             /\ events[i].x = call.a
             /\ events[i].y = call.b
             /\ events[i].c = IF call.train
                              THEN Configured("train_point_color", "#2B94E9")
                              ELSE Configured("test_point_color", "#94BA65")
             /\ events[i].alpha = IF call.train THEN 50 ELSE 100

C4_Witness ==
    /\ cls = "ResidualsPlot"
    /\ call.fn = "draw"
    /\ call.train
    /\ ncalls = 2
    /\ ctor.kwargs.train_point_color = "#FF0000"
    /\ ctor.kwargs.test_point_color = Absent
    /\ \E i \in EventsOf("scatter") : events[i].c = "#FF0000"

\* C5 as claimed: ResidualsPlot.poof() on a visualizer on which draw has
\* never been called does nothing, also when the Surface was supplied at
\* construction.
C5_PoofBeforeDrawIsNoop ==
    (cls = "ResidualsPlot" /\ call.fn = "poof" /\ hist.draws = 0) =>
        /\ events = <<>>
        /\ err = "none"
        /\ Untouched

\* C5 amended: ResidualsPlot.poof() called while the Surface reference is
\* null does nothing and raises nothing; called while it is not null (a
\* Surface supplied at construction is enough) it draws, labels and renders.
C5_PoofOnNullSurfaceIsNoop ==
    (cls = "ResidualsPlot" /\ call.fn = "poof") =>
        IF call.ax = None
        THEN /\ events = <<>>
             /\ ret = None
             /\ err = "none"
             /\ ax = None
             /\ Untouched
        ELSE /\ EventsOf("hlines") # {}
             /\ EventsOf("plt.show") # {}
             /\ surf[ax].title # ""

C5_Witness ==
    /\ cls = "ResidualsPlot"
    /\ call.fn = "poof"
    /\ call.ax = None
    /\ ctor.kwargs.ax = None
    /\ hist.draws = 0
    /\ ncalls = 2

\* C6: ResidualsPlot.fit trains the estimator first and only then scores:
\* estimator.fit precedes estimator.predict, which precedes the one scatter
\* of the training points, drawn at (y_pred, y_pred - y) in the train_point
\* color at opacity 0.5 on the Surface, which is acquired when fit returns.
C6_FitThenScoreTrain ==
    (cls = "ResidualsPlot" /\ call.fn = "fit") =>
        /\ Cardinality(EventsOf("estimator.fit")) = 1
        /\ Cardinality(EventsOf("estimator.predict")) = 1
        /\ Cardinality(EventsOf("scatter")) = 1
        /\ \A i \in EventsOf("estimator.fit"), j \in EventsOf("estimator.predict"),
              k \in EventsOf("scatter") :
             /\ i = 1 /\ i < j /\ j < k /\ k = Len(events)
             /\ events[i].n = Len(call.a)
             /\ events[j].out = call.b
             /\ events[k].ax = ax
             /\ events[k].x = call.b
             /\ events[k].c = Configured("train_point_color", "#2B94E9")
             /\ events[k].alpha = 50
        /\ ax \in Surfaces
        /\ surf[ax].marks >= Len(call.a)
        /\ err = "none"

C6_Witness ==
    /\ cls = "ResidualsPlot"
    /\ call.fn = "fit"
    /\ call.ax = None
    /\ ax = CurrentAxes
    /\ Len(call.a) = 2
    /\ surf[ax].marks = 2

C8_SurfaceAcquiredAtMostOnce ==
    [][ /\ (ax # None => ax' = ax)
        /\ plt'.gca <= 1
        /\ (plt'.gca # plt.gca =>
              /\ ax = None
              /\ ax' = CurrentAxes
              /\ call'.fn \in {"draw", "score", "fit"}
              /\ \E i \in 1..(Len(events') - 1) :
                   /\ events'[i].op = "plt.gca"
                   /\ events'[i + 1].op = "scatter")
        /\ (cls' # "none" /\ ctor'.kwargs.ax # None =>
              /\ ax' = ctor'.kwargs.ax
              /\ plt'.gca = 0) ]_vars

C8_Witness ==
    /\ cls = "PredictionError"
    /\ ctor.kwargs.ax = "ax2"
    /\ ax = "ax2"
    /\ hist.draws = 2
    /\ plt.gca = 0

\* C9: marks and lines only accumulate on a PredictionError's Surface: it
\* holds as many marks as samples were passed to score/draw so far and one
\* best-fit line per such call, whatever calls (poof included) came between.
C9_MarksAccumulate ==
    cls = "PredictionError" =>
        IF ax = None
        THEN hist.draws = 0 /\ Untouched
        ELSE /\ surf[ax].marks = hist.samples
             /\ surf[ax].lines = hist.draws

C9_Witness ==
    /\ cls = "PredictionError"
    /\ call.fn = "score"
    /\ hist.draws = 2
    /\ hist.samples = 3
    /\ surf[ax].marks = 3
    /\ surf[ax].lines = 2

====
